---------------------------- MODULE Spec2Model ----------------------------
(***************************************************************************)
(* A model of random_walk.py: the classes RandomWalk (one dimension) and   *)
(* RandomWalk2D (its two-dimensional extension).                           *)
(*                                                                         *)
(* One sampler object is modelled.  Its fields are the variables inner,    *)
(* outer, q, z, dict, values and heights (self._inner ... self._heights).  *)
(* Every method is one action; last records the method that ran last and   *)
(* the value it returned or the exception it raised.  drawn counts the     *)
(* numbers taken from the random generator so far, and ups the steps of    *)
(* the last compute() that went up (the draws that were <= q).             *)
(*                                                                         *)
(* Representation.                                                         *)
(*  - A Python dict is the sequence of its <<key, count>> items in         *)
(*    insertion order (Python dicts iterate in insertion order).           *)
(*  - None is the record NoneVal; a field holding a list l is Some(l).     *)
(*  - Probabilities and the numbers random.uniform(0, 1) returns are       *)
(*    counted in quarters: q = 1 stands for 0.25, a draw of 2 for 0.5.     *)
(*    random.uniform(0, 1) returns a number of [0, 1), 0.0 included.       *)
(*  - The float get_success returns is the exact fraction num/den it       *)
(*    denotes (floating-point rounding is not modelled).                   *)
(*  - A numpy matrix is the sequence of its rows.                          *)
(***************************************************************************)
EXTENDS Integers, Sequences, FiniteSets

VARIABLES cls, inner, outer, q, z, dict, values, heights, last, drawn, ups

vars == <<cls, inner, outer, q, z, dict, values, heights, last, drawn, ups>>
fields == <<cls, inner, outer, q, z, dict, values, heights>>

(***************************************************************************)
(* Bounds of the model.                                                    *)
(***************************************************************************)
\* largest number of steps of one repetition
MaxInner == 2
\* largest number of repetitions
MaxOuter == 4
\* largest start offset
MaxZ == 1
\* the number of values the random generator hands out over the sampler's life
MaxDraws == 12

InnerValues == (-1)..MaxInner
OuterValues == (-1)..MaxOuter
ZValues == 0..MaxZ
\* q in quarters: -0.25, 0.0, 0.25, 1.0, 1.25
QValues == {-1, 0, 1, 4, 5}
\* what random.uniform(0, 1) may return, in quarters: 0.0, 0.25 or 0.5
DrawValues == {0, 1, 2}

Classes == {"RandomWalk", "RandomWalk2D"}

(***************************************************************************)
(* Python values.                                                          *)
(***************************************************************************)
\* the record of a call: the method first, then its outcome (two records of
\* different methods differ in their first field, whatever the values are)
Called(name, result) == [call |-> name, exc |-> result.exc, val |-> result.val]

NoneVal == [isNone |-> TRUE, v |-> <<>>]
Some(x) == [isNone |-> FALSE, v |-> x]

Returned(x) == [exc |-> "none", val |-> x]
Raised(e) == [exc |-> e, val |-> NoneVal]

\* the method that ran last, and its outcome
call == last.call
ret == [exc |-> last.exc, val |-> last.val]

\* range(n) has max(n, 0) elements
RangeLen(n) == IF n > 0 THEN n ELSE 0

RECURSIVE SumSeq(_)
SumSeq(s) == IF s = <<>> THEN 0 ELSE Head(s) + SumSeq(Tail(s))

\* s[i:] for a 0-based Python index i >= 0
Slice(s, i) == SubSeq(s, i + 1, Len(s))

\* key in d
DictHas(d, key) == \E i \in 1..Len(d) : d[i][1] = key

\* d.get(key), for a key in d
DictGet(d, key) == LET i == CHOOSE i \in 1..Len(d) : d[i][1] = key IN d[i][2]

\* d[key] += 1, for a key in d
DictIncr(d, key) == [i \in 1..Len(d) |->
                        IF d[i][1] = key THEN <<key, d[i][2] + 1>> ELSE d[i]]

\* list(d.keys())
DictKeys(d) == [i \in 1..Len(d) |-> d[i][1]]

\* list(d.values())
DictValues(d) == [i \in 1..Len(d) |-> d[i][2]]

(***************************************************************************)
(* RandomWalk._compute_k: one repetition.  draws is the sequence of the    *)
(* numbers random.uniform(0, 1) returns, one per step.                     *)
(***************************************************************************)
RECURSIVE WalkFrom(_, _, _, _, _)
WalkFrom(draws, qq, j, k, highest) ==
    IF j > Len(draws) THEN highest
    ELSE IF draws[j] <= qq
         THEN WalkFrom(draws, qq, j + 1, k + 1,
                       IF highest < k + 1 THEN k + 1 ELSE highest)
         ELSE WalkFrom(draws, qq, j + 1, k - 1, highest)

\* a repetition that records where the walk ends instead of its highest point
RECURSIVE EndFrom(_, _, _, _)
EndFrom(draws, qq, j, k) ==
    IF j > Len(draws) THEN k
    ELSE EndFrom(draws, qq, j + 1, IF draws[j] <= qq THEN k + 1 ELSE k - 1)

compute_k_final(qq, zz, draws) == EndFrom(draws, qq, 1, -zz)

compute_k(qq, zz, draws) == WalkFrom(draws, qq, 1, -zz, -zz)

\* the draw sequences of one repetition of n steps
StepDraws(n) == [1..RangeLen(n) -> DrawValues]

\* the steps of one repetition that go up: the draws that are <= q
UpSteps(qq, draws) == Cardinality({j \in 1..Len(draws) : draws[j] <= qq})

(***************************************************************************)
(* The runs of the loop of RandomWalk._compute_stopping_points: one        *)
(* _compute_k call per repetition, each on draws of its own, kept with     *)
(* the number of its steps that went up.                                   *)
(***************************************************************************)
Runs(nin, nout, qq, zz) ==
    [1..RangeLen(nout) ->
        {[highest |-> compute_k(qq, zz, d), up |-> UpSteps(qq, d)] :
            d \in StepDraws(nin)}]

\* RandomWalk._compute_stopping_points: the list a run returns
compute_stopping_points(run) == [i \in 1..Len(run) |-> run[i].highest]

\* the steps of a run that went up
RunUps(run) == SumSeq([i \in 1..Len(run) |-> run[i].up])

\* list.sort() on a list of integers
RECURSIVE InsertInt(_, _)
InsertInt(s, x) ==
    IF s = <<>> THEN <<x>>
    ELSE IF x < Head(s) THEN <<x>> \o s
         ELSE <<Head(s)>> \o InsertInt(Tail(s), x)

RECURSIVE SortInts(_)
SortInts(s) == IF s = <<>> THEN <<>>
               ELSE InsertInt(SortInts(SubSeq(s, 1, Len(s) - 1)), s[Len(s)])

\* a counting loop that forgets to count a point it has already seen
RECURSIVE CountIntoNoIncr(_, _)
CountIntoNoIncr(d, keys) ==
    IF keys = <<>> THEN d
    ELSE CountIntoNoIncr(IF DictHas(d, Head(keys))
                         THEN d
                         ELSE Append(d, <<Head(keys), 1>>),
                         Tail(keys))

\* the counting loop shared by _compute_values and _compute_values_2d
RECURSIVE CountInto(_, _)
CountInto(d, keys) ==
    IF keys = <<>> THEN d
    ELSE CountInto(IF DictHas(d, Head(keys))
                   THEN DictIncr(d, Head(keys))
                   ELSE Append(d, <<Head(keys), 1>>),
                   Tail(keys))

(***************************************************************************)
(* RandomWalk._compute_values                                              *)
(***************************************************************************)
compute_values(stopping_points) == CountInto(<<>>, SortInts(stopping_points))

\* Python's order on the items ((x, y), count) of the 2D dict
ItemLess(a, b) ==
    \/ a[1][1] < b[1][1]
    \/ a[1][1] = b[1][1] /\ a[1][2] < b[1][2]
    \/ a[1] = b[1] /\ a[2] < b[2]

RECURSIVE InsertItem(_, _)
InsertItem(s, x) ==
    IF s = <<>> THEN <<x>>
    ELSE IF ItemLess(x, Head(s)) THEN <<x>> \o s
         ELSE <<Head(s)>> \o InsertItem(Tail(s), x)

\* sorted(values.items())
RECURSIVE SortItems(_)
SortItems(s) == IF s = <<>> THEN <<>>
                ELSE InsertItem(SortItems(SubSeq(s, 1, Len(s) - 1)), s[Len(s)])

(***************************************************************************)
(* RandomWalk2D._compute_values_2d                                         *)
(***************************************************************************)
compute_values_2d(first, second) ==
    SortItems(CountInto(<<>>, [i \in 1..Len(first) |-> <<first[i], second[i]>>]))

(***************************************************************************)
(* The accessors.  Each is the outcome of the call in the current state:   *)
(* Returned(value) or Raised(exception).  A field that is still None makes *)
(* len(), iteration and slicing raise TypeError.                           *)
(***************************************************************************)
get_dict == Returned(dict)

get_values == Returned(values)

get_heights == Returned(heights)

\* the loop of RandomWalk.get_zero_or_above_value_index from index i (1-based)
RECURSIVE ScanFrom(_, _)
ScanFrom(vals, i) ==
    IF i > Len(vals) THEN NoneVal
    ELSE IF vals[i] >= 0 THEN Some(i - 1)
         ELSE ScanFrom(vals, i + 1)

\* the loop of RandomWalk2D.get_zero_or_above_value_index from index i (1-based)
RECURSIVE ScanFrom2D(_, _)
ScanFrom2D(vals, i) ==
    IF i > Len(vals) THEN NoneVal
    ELSE IF vals[i][1] >= 0 /\ vals[i][2] >= 0 THEN Some(i - 1)
         ELSE ScanFrom2D(vals, i + 1)

\* a scan that looks for a value above 0 instead of a value of 0 or above
RECURSIVE ScanStrictFrom(_, _)
ScanStrictFrom(vals, i) ==
    IF i > Len(vals) THEN NoneVal
    ELSE IF vals[i] > 0 THEN Some(i - 1)
         ELSE ScanStrictFrom(vals, i + 1)

zero_or_above_1d_strict(vals) == ScanStrictFrom(vals, 1)

\* RandomWalk.get_zero_or_above_value_index
zero_or_above_1d(vals) == ScanFrom(vals, 1)

\* RandomWalk2D.get_zero_or_above_value_index
zero_or_above_2d(vals) == ScanFrom2D(vals, 1)

\* an index lookup that answers None for a sampler that has not computed
get_index_lenient ==
    IF values.isNone THEN Returned(NoneVal)
    ELSE IF cls = "RandomWalk2D" THEN Returned(zero_or_above_2d(values.v))
         ELSE Returned(zero_or_above_1d(values.v))

\* self.get_zero_or_above_value_index(), dispatched on the object's class
get_zero_or_above_value_index ==
    IF values.isNone THEN Raised("TypeError")
    ELSE IF cls = "RandomWalk2D" THEN Returned(zero_or_above_2d(values.v))
         ELSE Returned(zero_or_above_1d(values.v))

\* the value of get_success once the index i is known: "if i:" is false for
\* None and for 0
success_value(i, nout, hs) ==
    IF ~i.isNone /\ i.v # 0
    THEN [num |-> nout - (nout - SumSeq(Slice(hs, i.v))), den |-> nout]
    ELSE [num |-> 0, den |-> 1]

\* RandomWalk.get_success (inherited by RandomWalk2D)
get_success ==
    LET r == get_zero_or_above_value_index
    IN  IF r.exc # "none" THEN r
        ELSE Returned(Some(success_value(r.val, outer, heights.v)))

\* RandomWalk2D.get_x_values
get_x_values ==
    IF values.isNone THEN Raised("TypeError")
    ELSE Returned(Some([i \in 1..Len(values.v) |-> values.v[i][1]]))

\* RandomWalk2D.get_y_values
get_y_values ==
    IF values.isNone THEN Raised("TypeError")
    ELSE Returned(Some([i \in 1..Len(values.v) |-> values.v[i][2]]))

\* sorted(list(set(s)))
RECURSIVE SortedSet(_)
SortedSet(S) ==
    IF S = {} THEN <<>>
    ELSE LET m == CHOOSE a \in S : \A b \in S : a <= b
         IN  <<m>> \o SortedSet(S \ {m})

SortedDistinct(s) == SortedSet({s[i] : i \in 1..Len(s)})

\* np.matrix(rows): an empty list of rows gives a matrix of shape (1, 0)
NpMatrix(rows) == IF rows = <<>> THEN << <<>> >> ELSE rows

\* a get_matrix that looks the counts up under (y, x)
matrix_of_swapped(xvals, yvals, d) ==
    LET x  == SortedDistinct(xvals)
        y  == SortedDistinct(yvals)
        mx == NpMatrix([i \in 1..Len(y) |-> x])
        my == NpMatrix([i \in 1..Len(y) |-> [j \in 1..Len(x) |-> y[i]]])
        nrows == Len(mx)
        ncols == Len(mx[1])
        mz == [i \in 1..nrows |-> [j \in 1..ncols |->
                 IF DictHas(d, <<my[i][j], mx[i][j]>>)
                 THEN DictGet(d, <<my[i][j], mx[i][j]>>)
                 ELSE 0]]
    IN  <<mx, my, mz>>

\* the three matrices of RandomWalk2D.get_matrix for the key lists xs, ys
matrix_of(xvals, yvals, d) ==
    LET x  == SortedDistinct(xvals)
        y  == SortedDistinct(yvals)
        mx == NpMatrix([i \in 1..Len(y) |-> x])
        my == NpMatrix([i \in 1..Len(y) |-> [j \in 1..Len(x) |-> y[i]]])
        nrows == Len(mx)
        ncols == Len(mx[1])
        mz == [i \in 1..nrows |-> [j \in 1..ncols |->
                 IF DictHas(d, <<mx[i][j], my[i][j]>>)
                 THEN DictGet(d, <<mx[i][j], my[i][j]>>)
                 ELSE 0]]
    IN  <<mx, my, mz>>

\* RandomWalk2D.get_matrix
get_matrix ==
    IF values.isNone THEN Raised("TypeError")
    ELSE Returned(Some(matrix_of(get_x_values.val.v, get_y_values.val.v, dict.v)))

(***************************************************************************)
(* The state before the sampler is constructed.                            *)
(***************************************************************************)
Init ==
    /\ cls = "none"
    /\ inner = 0
    /\ outer = 0
    /\ q = 0
    /\ z = 0
    /\ dict = NoneVal
    /\ values = NoneVal
    /\ heights = NoneVal
    /\ last = Called("none", Returned(NoneVal))
    /\ drawn = 0
    /\ ups = 0

\* the parameters the specification calls valid (q in quarters)
ValidParameters(nin, nout, qq) == nin > 0 /\ nout > 0 /\ 0 <= qq /\ qq <= 4

\* a constructor that rejects the parameters the specification calls invalid
init_validating(c, nin, nout, qq, zz) ==
    /\ cls = "none"
    /\ IF ValidParameters(nin, nout, qq)
       THEN /\ cls' = c
            /\ inner' = nin
            /\ outer' = nout
            /\ q' = qq
            /\ z' = zz
            /\ last' = Called("__init__", Returned(NoneVal))
       ELSE /\ last' = Called("__init__", Raised("InvalidParameter"))
            /\ UNCHANGED <<cls, inner, outer, q, z>>
    /\ dict' = NoneVal
    /\ values' = NoneVal
    /\ heights' = NoneVal
    /\ UNCHANGED <<drawn, ups>>

(***************************************************************************)
(* RandomWalk.__init__ / RandomWalk2D.__init__: no argument is checked.    *)
(***************************************************************************)
init(c, nin, nout, qq, zz) ==
    /\ cls = "none"
    /\ cls' = c
    /\ inner' = nin
    /\ outer' = nout
    /\ q' = qq
    /\ z' = zz
    /\ dict' = NoneVal
    /\ values' = NoneVal
    /\ heights' = NoneVal
    /\ last' = Called("__init__", Returned(NoneVal))
    /\ UNCHANGED <<drawn, ups>>

Construct ==
    \E c \in Classes, nin \in InnerValues, nout \in OuterValues,
       qq \in QValues, zz \in ZValues : init(c, nin, nout, qq, zz)

\* the random numbers one compute() call of the object draws
DrawsNeeded == (IF cls = "RandomWalk2D" THEN 2 ELSE 1)
               * RangeLen(outer) * RangeLen(inner)

\* the three assignments that end both compute methods
Store(d) ==
    /\ values' = Some(DictKeys(d))
    /\ heights' = Some(DictValues(d))
    /\ dict' = Some(d)

\* a compute that counts the new stopping points into the dict it already has
compute_accumulating ==
    /\ cls = "RandomWalk"
    /\ drawn + DrawsNeeded <= MaxDraws
    /\ \E run \in Runs(inner, outer, q, z) :
          /\ Store(CountInto(IF dict.isNone THEN <<>> ELSE dict.v,
                             SortInts(compute_stopping_points(run))))
          /\ ups' = RunUps(run)
    /\ drawn' = drawn + DrawsNeeded
    /\ last' = Called("compute", Returned(NoneVal))
    /\ UNCHANGED <<cls, inner, outer, q, z>>

(***************************************************************************)
(* RandomWalk.compute                                                      *)
(***************************************************************************)
compute ==
    /\ cls = "RandomWalk"
    /\ drawn + DrawsNeeded <= MaxDraws
    /\ \E run \in Runs(inner, outer, q, z) :
          /\ Store(compute_values(compute_stopping_points(run)))
          /\ ups' = RunUps(run)
    /\ drawn' = drawn + DrawsNeeded
    /\ last' = Called("compute", Returned(NoneVal))
    /\ UNCHANGED <<cls, inner, outer, q, z>>

(***************************************************************************)
(* RandomWalk2D.compute                                                    *)
(***************************************************************************)
compute_2d ==
    /\ cls = "RandomWalk2D"
    /\ drawn + DrawsNeeded <= MaxDraws
    /\ \E first \in Runs(inner, outer, q, z) :
       \E second \in Runs(inner, outer, q, z) :
          /\ Store(compute_values_2d(compute_stopping_points(first),
                                     compute_stopping_points(second)))
          /\ ups' = RunUps(first) + RunUps(second)
    /\ drawn' = drawn + DrawsNeeded
    /\ last' = Called("compute", Returned(NoneVal))
    /\ UNCHANGED <<cls, inner, outer, q, z>>

\* a call of an accessor: it leaves the object as it is
Access(name, result) ==
    /\ last' = Called(name, result)
    /\ UNCHANGED <<fields, drawn, ups>>

CallGetDict == cls # "none" /\ Access("get_dict", get_dict)

CallGetValues == cls # "none" /\ Access("get_values", get_values)

CallGetHeights == cls # "none" /\ Access("get_heights", get_heights)

CallGetIndex ==
    cls # "none" /\ Access("get_zero_or_above_value_index",
                           get_zero_or_above_value_index)

CallGetSuccess == cls # "none" /\ Access("get_success", get_success)

CallGetXValues == cls = "RandomWalk2D" /\ Access("get_x_values", get_x_values)

CallGetYValues == cls = "RandomWalk2D" /\ Access("get_y_values", get_y_values)

CallGetMatrix == cls = "RandomWalk2D" /\ Access("get_matrix", get_matrix)

Accessor ==
    \/ CallGetDict
    \/ CallGetValues
    \/ CallGetHeights
    \/ CallGetIndex
    \/ CallGetSuccess
    \/ CallGetXValues
    \/ CallGetYValues
    \/ CallGetMatrix

Next ==
    \/ Construct
    \/ compute
    \/ compute_2d
    \/ Accessor

Spec == Init /\ [][Next]_vars

(***************************************************************************)
(* Vocabulary of the properties.                                           *)
(***************************************************************************)
Is1D == cls = "RandomWalk"
Is2D == cls = "RandomWalk2D"

\* no compute() has run yet on the constructed sampler
Uninitialized == cls # "none" /\ dict.isNone
\* a compute() has run
Ready == cls # "none" /\ ~dict.isNone

PlainGetters == {"get_dict", "get_values", "get_heights"}
DerivedAccessors == {"get_zero_or_above_value_index", "get_success",
                     "get_x_values", "get_y_values", "get_matrix"}
AccessorNames == PlainGetters \cup DerivedAccessors

\* a key whose value (1D) or both components (2D) are 0 or above
NonNegative(key) == IF Is2D THEN key[1] >= 0 /\ key[2] >= 0 ELSE key >= 0

\* the number of repetitions whose recorded result is non-negative
NonNegativeCount(d) ==
    SumSeq([i \in 1..Len(d) |-> IF NonNegative(d[i][1]) THEN d[i][2] ELSE 0])

\* the fraction f is n out of total
IsFraction(f, n, total) == f.num * total = n * f.den

\* strictly ascending keys: integer order in 1D, lexicographic order in 2D
KeyLess(a, b) == IF Is2D THEN a[1] < b[1] \/ (a[1] = b[1] /\ a[2] < b[2])
                 ELSE a < b
StrictlyAscending(s) == \A i \in 1..(Len(s) - 1) : KeyLess(s[i], s[i + 1])

\* the position of the walk after its first j steps
RECURSIVE Position(_, _, _, _)
Position(draws, qq, zz, j) ==
    IF j = 0 THEN -zz
    ELSE Position(draws, qq, zz, j - 1) + (IF draws[j] <= qq THEN 1 ELSE -1)

\* the highest position among the start and all steps
HighestPosition(draws, qq, zz) ==
    CHOOSE m \in {Position(draws, qq, zz, j) : j \in 0..Len(draws)} :
        \A j \in 0..Len(draws) : Position(draws, qq, zz, j) <= m

\* the j-th smallest element of a finite set of integers
Nth(S, j) == CHOOSE a \in S : Cardinality({b \in S : b < a}) = j - 1

(***************************************************************************)
(* C1: in a computed 1D sampler get_success returns the fraction of the    *)
(* repetitions whose recorded maximum is 0 or above (0 when there is       *)
(* none, 1.0 for the distribution {1: 4}), for valid parameters.           *)
(***************************************************************************)
C1_SuccessIsNonNegativeFraction ==
    (Is1D /\ Ready /\ ValidParameters(inner, outer, q)
          /\ call = "get_success") =>
        /\ ret.exc = "none"
        /\ IsFraction(ret.val.v, NonNegativeCount(dict.v), outer)

(***************************************************************************)
(* C2: after compute() with inner > 0 and outer > 0, in 1D and in 2D, the  *)
(* counts of heights (and of the dict) add up to outer and every count is  *)
(* a positive integer.                                                     *)
(***************************************************************************)
C2_CountsSumToOuter ==
    (Ready /\ inner > 0 /\ outer > 0) =>
        /\ SumSeq(heights.v) = outer
        /\ SumSeq(DictValues(dict.v)) = outer
        /\ \A i \in 1..Len(heights.v) : heights.v[i] >= 1
        /\ \A i \in 1..Len(dict.v) : dict.v[i][2] >= 1

C2_Witness ==
    /\ Is2D /\ Ready /\ inner = 2 /\ outer = 3
    /\ call = "get_heights"
    /\ ret.val.v = <<1, 2>>

(***************************************************************************)
(* C3, as stated: with inner = 1, outer = 4, z = 0 and every step -1       *)
(* (q = 0.0), the 1D distribution is {-1: 4}, the index is None and        *)
(* get_success returns 0.                                                  *)
(***************************************************************************)
\* ups = 0: no step of the compute() went up.  q = 0.0 alone does not give
\* that: a draw of exactly 0.0 passes the test draw <= q and steps +1.
C3_Case ==
    Is1D /\ Ready /\ inner = 1 /\ outer = 4 /\ z = 0 /\ q = 0 /\ ups = 0

C3_AllDownGivesMinusOne ==
    C3_Case =>
        /\ dict.v = << <<-1, 4>> >>
        /\ call = "get_zero_or_above_value_index" => ret = Returned(NoneVal)
        /\ call = "get_success" => ret = Returned(Some([num |-> 0, den |-> 1]))

(***************************************************************************)
(* C3, amended: in that case the recorded maximum is the start 0, so the   *)
(* distribution is {0: 4}, the index is 0, and get_success returns 0.      *)
(***************************************************************************)
C3_AllDownGivesStart ==
    C3_Case =>
        /\ dict.v = << <<0, 4>> >>
        /\ values.v = <<0>>
        /\ heights.v = <<4>>
        /\ call = "get_zero_or_above_value_index" => ret = Returned(Some(0))
        /\ call = "get_success" => ret = Returned(Some([num |-> 0, den |-> 1]))

C3_Witness == C3_Case /\ call = "get_success"

(***************************************************************************)
(* C4: the value one repetition records is the highest position among the  *)
(* start and all steps, whatever the draws; it is at least -z and, for     *)
(* inner >= 0, at most -z + inner.  So every key of the 1D dict and each   *)
(* component of every key of the 2D dict is at least -z.                   *)
(***************************************************************************)
C4_RecordsRunningMaximum ==
    cls # "none" =>
        /\ \A d \in StepDraws(inner) :
              /\ compute_k(q, z, d) = HighestPosition(d, q, z)
              /\ compute_k(q, z, d) >= -z
              /\ inner >= 0 => compute_k(q, z, d) <= -z + inner
        /\ Ready =>
              \A i \in 1..Len(values.v) :
                 IF Is2D
                 THEN values.v[i][1] >= -z /\ values.v[i][2] >= -z
                 ELSE values.v[i] >= -z

\* a walk that goes up and comes back down was recorded next to one that
\* never rose
C4_Witness ==
    /\ Is1D /\ Ready /\ inner = 2 /\ z = 1 /\ q = 1
    /\ compute_k(q, z, <<0, 2>>) = 0
    /\ values.v = <<-1, 0, 1>>

(***************************************************************************)
(* C5, as stated: an accessor called before the first compute() fails      *)
(* with NotComputed or returns an empty result, and never fails with       *)
(* another kind of error.                                                  *)
(***************************************************************************)
C5_FailsWithNotComputedOrEmpty ==
    (Uninitialized /\ ValidParameters(inner, outer, q)
                   /\ call \in AccessorNames) =>
        \/ ret.exc = "NotComputed"
        \/ ret = Returned(NoneVal)

(***************************************************************************)
(* C5, amended: before the first compute() the getters get_dict,           *)
(* get_values and get_heights return None, and every other accessor fails  *)
(* with the TypeError Python raises on the None field.                     *)
(***************************************************************************)
C5_FailsWithTypeErrorOrNone ==
    (Uninitialized /\ call \in AccessorNames) =>
        /\ call \in PlainGetters => ret = Returned(NoneVal)
        /\ call \in DerivedAccessors => ret = Raised("TypeError")

C5_Witness == Uninitialized /\ call = "get_success" /\ ret.exc = "TypeError"

(***************************************************************************)
(* C6, as stated: constructing with inner <= 0, outer <= 0 or q outside    *)
(* [0, 1] fails and yields no sampler, so every sampler that exists has    *)
(* valid parameters.                                                       *)
(***************************************************************************)
C6_InvalidParametersRejected ==
    /\ cls # "none" => ValidParameters(inner, outer, q)
    /\ (call = "__init__" /\ cls = "none") => ret.exc = "InvalidParameter"

(***************************************************************************)
(* C6, amended: construction never fails and checks nothing: whatever the  *)
(* parameters, it returns an Uninitialized sampler holding them.           *)
(***************************************************************************)
C6_ConstructionAlwaysSucceeds ==
    /\ cls = "none" =>
          \A c \in Classes, nin \in InnerValues, nout \in OuterValues,
             qq \in QValues, zz \in ZValues : ENABLED init(c, nin, nout, qq, zz)
    /\ call = "__init__" =>
          /\ cls \in Classes
          /\ ret = Returned(NoneVal)
          /\ inner \in InnerValues /\ outer \in OuterValues /\ q \in QValues
          /\ Uninitialized /\ values.isNone /\ heights.isNone

C6_Witness ==
    /\ call = "__init__" /\ cls \in Classes /\ ret.exc = "none"
    /\ inner <= 0 /\ outer <= 0 /\ q > 4

(***************************************************************************)
(* C7: after compute() the keys are strictly ascending (integers in 1D,    *)
(* pairs in lexicographic order in 2D) and get_zero_or_above_value_index   *)
(* returns the smallest index of a non-negative key, None exactly when     *)
(* there is none.                                                          *)
(***************************************************************************)
C7_FirstNonNegativeIndex ==
    Ready =>
        /\ StrictlyAscending(values.v)
        /\ call = "get_zero_or_above_value_index" =>
              LET hits == {k \in 0..(Len(values.v) - 1) :
                              NonNegative(values.v[k + 1])}
              IN  /\ ret.exc = "none"
                  /\ ret.val.isNone <=> hits = {}
                  /\ ~ret.val.isNone =>
                        /\ ret.val.v \in hits
                        /\ \A k \in hits : ret.val.v <= k

C7_Witness ==
    /\ Is1D /\ Ready /\ call = "get_zero_or_above_value_index"
    /\ values.v = <<-1, 0, 1>>
    /\ ret = Returned(Some(1))

(***************************************************************************)
(* C8: for a computed 2D distribution (outer >= 1) get_matrix returns      *)
(* three grids of |Y| rows and |X| columns, X and Y the ascending distinct *)
(* x and y values of the keys; cell [i][j] of the third is the count of    *)
(* (X[j], Y[i]), or 0 when that pair was never recorded; the cells add up  *)
(* to outer.                                                               *)
(***************************************************************************)
C8_MatrixOfCounts ==
    (Is2D /\ Ready /\ outer >= 1 /\ call = "get_matrix") =>
        LET X  == {values.v[k][1] : k \in 1..Len(values.v)}
            Y  == {values.v[k][2] : k \in 1..Len(values.v)}
            mx == ret.val.v[1]
            my == ret.val.v[2]
            mz == ret.val.v[3]
            rows == 1..Cardinality(Y)
            cols == 1..Cardinality(X)
        IN  /\ ret.exc = "none"
            /\ Len(mx) = Cardinality(Y) /\ Len(my) = Cardinality(Y)
            /\ Len(mz) = Cardinality(Y)
            /\ \A i \in rows :
                  /\ Len(mx[i]) = Cardinality(X)
                  /\ Len(my[i]) = Cardinality(X)
                  /\ Len(mz[i]) = Cardinality(X)
                  /\ \A j \in cols :
                        /\ mx[i][j] = Nth(X, j)
                        /\ my[i][j] = Nth(Y, i)
                        /\ mz[i][j] =
                              IF DictHas(dict.v, <<Nth(X, j), Nth(Y, i)>>)
                              THEN DictGet(dict.v, <<Nth(X, j), Nth(Y, i)>>)
                              ELSE 0
            /\ SumSeq([i \in rows |-> SumSeq(mz[i])]) = outer

\* a matrix with a zero-filled cell and two different counts
C8_Witness ==
    /\ Is2D /\ Ready /\ call = "get_matrix"
    /\ dict.v = << <<<<-1, 0>>, 2>>, <<<<0, -1>>, 1>> >>
    /\ ret.val.v[3] = << <<0, 1>>, <<2, 0>> >>

(***************************************************************************)
(* C9: every compute() replaces the state: values is the key list of the   *)
(* dict and heights its count list, of equal length, and the counts add up *)
(* to the repetitions of one compute(), however many ran before; an        *)
(* accessor leaves the object unchanged, and the same accessor called      *)
(* again returns the same result.                                          *)
(***************************************************************************)
C9_StateOfLastCompute ==
    Ready =>
        /\ values.v = DictKeys(dict.v)
        /\ heights.v = DictValues(dict.v)
        /\ Len(values.v) = Len(heights.v)
        /\ SumSeq(heights.v) = RangeLen(outer)
        /\ \A i, j \in 1..Len(values.v) : i # j => values.v[i] # values.v[j]

C9_AccessorStep ==
    call' \in AccessorNames =>
        /\ UNCHANGED fields
        /\ call = call' => ret' = ret

C9_ComputeReplacesState == [](C9_StateOfLastCompute) /\ [][C9_AccessorStep]_vars

\* a second compute() has run on a 1D sampler and its result was read
C9_Witness ==
    /\ Is1D /\ Ready /\ inner = 2 /\ outer = 3 /\ drawn = 12
    /\ call = "get_values" /\ Len(ret.val.v) = 3

(***************************************************************************)
(* C10: in a computed 2D sampler get_success returns the fraction of the   *)
(* repetitions whose x result and y result are both 0 or above.  Stated    *)
(* here for valid parameters and for the calls whose index is not 0, the   *)
(* ones that reach the sum heights[i:].                                    *)
(***************************************************************************)
C10_SuccessIsBothNonNegativeFraction ==
    (Is2D /\ Ready /\ ValidParameters(inner, outer, q)
          /\ call = "get_success"
          /\ ~get_zero_or_above_value_index.val.isNone
          /\ get_zero_or_above_value_index.val.v # 0) =>
        /\ ret.exc = "none"
        /\ IsFraction(ret.val.v, NonNegativeCount(dict.v), outer)

=============================================================================
